---------------------------- MODULE Spec2Model ----------------------------
(***************************************************************************)
(* Model of one invocation of run_action.py (main) of pve_manager: the     *)
(* power actions, the snapshot-create flow and the rollback_exec flow,     *)
(* with the task poller wait_for_task and the ProxmoxAPI client calls.     *)
(*                                                                         *)
(* Every HTTP request is one step whose reply is chosen by the             *)
(* hypervisor (\E over the replies); notify() appends to notes; time is    *)
(* counted in ticks, TicksPerSec ticks to the second.                      *)
(***************************************************************************)
EXTENDS Integers, Sequences, FiniteSets, TLC

(***************************************************************************)
(* Bounds of the model.                                                    *)
(***************************************************************************)
\* wait_for_task's timeout parameter in seconds (the source's default is
\* 120, run_action.py:133); the model is checked for a small value.
Timeout == 2
\* resolution of the clock: ticks per second
TicksPerSec == 2
\* a request returns (or raises) after 0..MaxReqTicks ticks
MaxReqTicks == 1
\* time.sleep(1) returns after one second plus 0..MaxOversleep ticks
MaxOversleep == 1
\* a snapshot listing holds at most MaxListing entries
MaxListing == 5

(***************************************************************************)
(* Program constants.                                                      *)
(***************************************************************************)
\* time.sleep(1) in the poll loop, in seconds
PollInterval == 1
\* time.sleep(1) before the start after a rollback, in seconds
SettleDelay == 1

VARIABLES
    lister,            \* list_snapshots.py: what its argument is built from
    arg,               \* sys.argv[1], as a sequence of tokens
    verify_ssl,        \* config['verify_ssl'] (PVE_VERIFY_SSL)
    pc,                \* position in main()
    action,            \* parts[0]
    vmtype,            \* parts[2]
    target,            \* parts[1], parts[3] and ':'.join(parts[4:])
    description,       \* text after the first ':::' ("" stands for None)
    was_running_field, \* triple_parts[2]
    has_vmstate_field, \* triple_parts[3]
    was_running,       \* main: was_running
    has_vmstate,       \* main: has_vmstate
    current_status,    \* main: current_status
    currently_running, \* main: currently_running
    snapshots,         \* main: snapshots, the names of the listing
    snap_name,         \* main: snap_name, as a sequence of characters
    result,            \* outcome of the last request other than a task poll
    success,           \* main: success (result of the rollback poll)
    upid,              \* main: upid, the task of the dispatch ("" = none)
    start_upid,        \* main: start_upid, the task of the start ("" = none)
    exit_code,         \* 1 after sys.exit(1)
    notes,             \* the notifications, in order
    reqs,              \* the requests other than task polls, in order
    polls,             \* number of task-status queries, per task
    now,               \* time.time(), in ticks
    wpc,               \* position in wait_for_task ("idle" outside it)
    w_upid,            \* wait_for_task: upid
    w_name,            \* wait_for_task: action_name
    start_time,        \* wait_for_task: start_time
    sleeps,            \* wait_for_task: number of time.sleep(1) calls made
    status,            \* wait_for_task: the last reply of get_task_status
    wret               \* wait_for_task: the value returned

vars == << lister, arg, verify_ssl, pc, action, vmtype, target, description,
           was_running_field, has_vmstate_field, was_running, has_vmstate,
           current_status, currently_running, snapshots, snap_name, result,
           success, upid, start_upid, exit_code, notes, reqs, polls, now,
           wpc, w_upid, w_name, start_time, sleeps, status, wret >>

\* what main() reads and never writes after parsing
inputs == << lister, arg, verify_ssl, action, vmtype, target, description,
             was_running_field, has_vmstate_field >>

\* the locals of the rollback_exec branch
flags == << was_running, has_vmstate, current_status, currently_running,
            success >>

\* the locals of the snapshot branch
snapvars == << snapshots, snap_name >>

waitvars == << wpc, w_upid, w_name, start_time, sleeps, status, wret >>

(***************************************************************************)
(* Inputs and replies.                                                     *)
(***************************************************************************)
PowerActions == {"start", "stop", "shutdown", "restart", "reboot"}

SnapshotActions == {"snapshot", "snapshot_ram", "snapshot_with_desc",
                    "snapshot_ram_with_desc"}

Actions == PowerActions \cup SnapshotActions \cup {"rollback_exec"}

\* the branches of main() that send no hypervisor request
LocalActions == {"ssh", "rollback", "webui", "console"}

VmTypes == {"qemu", "lxc"}

Descriptions == {"", "before upgrade"}

\* list_snapshots.py writes 'true' / 'false'; other callers may capitalise
WasRunningFields == {"true", "True", "false"}

\* list_snapshots.py writes 1 / 0
VmstateFields == {"1", "0"}

\* outcome of an initiating request: a task identifier in 'data', no
\* (or an empty) 'data', an HTTP error status, a connection error
DispatchReplies == {"upid", "noupid", "http", "conn"}

ErrorRepliesHttpOnly == {"http"}

\* the replies that make the client raise
ErrorReplies == {"http", "conn"}

\* 'status' of status/current; "" stands for a reply without the field
CurrentStatusValues == {"running", "stopped", ""}

\* 'status' and 'exitstatus' of a task-status reply; "" stands for a reply
\* without the field
TaskStatusValues == {"running", "stopped", ""}

ExitStatusValues == {"OK", "command failed", "interrupted", ""}

\* a reply of get_task_status; err marks a query that raised
\* (a task that has not stopped has no exit status)
TaskReplies ==
    [err : {FALSE}, status : {"stopped"}, exitstatus : ExitStatusValues]
    \cup [err : {FALSE}, status : TaskStatusValues \ {"stopped"},
          exitstatus : {""}]
    \cup {[err |-> TRUE, status |-> "", exitstatus |-> ""]}

NoReply == [err |-> FALSE, status |-> "", exitstatus |-> ""]

Tasks == {"power", "snapshot", "rollback", "start"}

ReqTicks == 0..MaxReqTicks

\* the time a request outside wait_for_task takes: main() reads the clock
\* only in wait_for_task, so this time is not observed and counts as 0
DispatchTicks == {0}

SleepTicks(seconds) ==
    {seconds * TicksPerSec + j : j \in 0..MaxOversleep}

(***************************************************************************)
(* Pure helpers of the source.                                             *)
(***************************************************************************)
Note(title, kind, subject, detail) ==
    [title |-> title, kind |-> kind, subject |-> subject, detail |-> detail]

Req(method, ep, data, client) ==
    [method |-> method, ep |-> ep, data |-> data, client |-> client]

\* str.lower() on the values of WasRunningFields
Lower(s) == IF s = "True" THEN "true" ELSE s

ParseWasRunning(field) == Lower(field) = "true"

ParseHasVmstate(field) == field = "1"

\* action_labels[action][0] without the emoji
EmojiLabel(a) ==
    CASE a = "start" -> "Starting"
      [] a = "stop" -> "Stopping"
      [] a = "shutdown" -> "Shutting down"
      [] a \in {"restart", "reboot"} -> "Restarting"
      [] OTHER -> "Running"

\* action_labels[action][1]
ActionName(a) ==
    CASE a = "start" -> "Start"
      [] a = "stop" -> "Stop"
      [] a = "shutdown" -> "Shutdown"
      [] a \in {"restart", "reboot"} -> "Restart"
      [] OTHER -> a

EndpointActionSame(a) == a

\* endpoint_action = 'reboot' if action == 'restart' else action
EndpointAction(a) == IF a = "restart" THEN "reboot" ELSE a

StatusEndpoint(a) == "status/" \o EndpointAction(a)

\* include_ram = 'ram' in action
IncludeRam(a) == a \in {"snapshot_ram", "snapshot_ram_with_desc"}

\* snap_type
SnapType(a) == IF IncludeRam(a) THEN "RAM snapshot" ELSE "snapshot"

\* snap_type.capitalize(): first letter upper, the rest lower
SnapTypeCapitalized(a) == IF IncludeRam(a) THEN "Ram snapshot" ELSE "Snapshot"

SnapshotDataAnyType(vt, name, desc, vmstate) ==
    (IF name # "" THEN {"snapname"} ELSE {})
    \cup (IF desc # "" THEN {"description"} ELSE {})
    \cup (IF vmstate THEN {"vmstate"} ELSE {})

\* ProxmoxAPI.create_snapshot: the keys of the form payload
SnapshotData(vt, name, desc, vmstate) ==
    (IF name # "" THEN {"snapname"} ELSE {})
    \cup (IF desc # "" THEN {"description"} ELSE {})
    \cup (IF vmstate /\ vt = "qemu" THEN {"vmstate"} ELSE {})

ShouldRestartIgnoreSuccess(ok, was, cur, vmstate) ==
    (was \/ cur) /\ ~vmstate

ShouldRestartCurrentOnly(ok, was, cur, vmstate) ==
    ok /\ cur /\ ~vmstate

ShouldRestartIgnoreVmstate(ok, was, cur, vmstate) ==
    ok /\ (was \/ cur)

\* if success and (was_running or currently_running) and not has_vmstate
ShouldRestart(ok, was, cur, vmstate) ==
    ok /\ (was \/ cur) /\ ~vmstate

ClassifyStoppedIsOk(r) ==
    IF r.err THEN "again"
    ELSE IF r.status = "stopped" THEN "completed"
    ELSE "again"

ClassifyIgnoresFailure(r) ==
    IF r.err THEN "again"
    ELSE IF r.status = "stopped" /\ r.exitstatus = "OK" THEN "completed"
    ELSE "again"

ClassifyErrorFails(r) ==
    IF r.err THEN "failed"
    ELSE IF r.status = "stopped"
         THEN IF r.exitstatus = "OK" THEN "completed" ELSE "failed"
    ELSE "again"

\* the try block of wait_for_task: what one reply leads to
Classify(r) ==
    IF r.err THEN "again"
    ELSE IF r.status = "stopped"
         THEN IF r.exitstatus = "OK" THEN "completed" ELSE "failed"
    ELSE "again"

WaitReturnsAlwaysTrue(kind) == TRUE

WaitReturnsTrueOnTimeout(kind) == kind \in {"completed", "timed_out"}

\* the value wait_for_task returns after the notification of each kind
WaitReturns(kind) ==
    CASE kind = "completed" -> TRUE
      [] kind = "failed" -> FALSE
      [] kind = "timed_out" -> FALSE

FailedDetailFixed(r) == "error"

\* the exit reason in the '... failed: {exit_status}' notification
FailedDetail(r) == r.exitstatus

TimedOutNever(elapsed) == FALSE

TimedOutLate(elapsed) == elapsed > (Timeout + 1) * TicksPerSec

TimedOutAtTimeout(elapsed) == elapsed >= Timeout * TicksPerSec

SleepsOnReplyOnly(r) == ~r.err

\* time.sleep(1) after a reply that is not 'stopped' (line 162) and after a
\* query that raised (line 166)
SleepsOn(r) == TRUE

\* elapsed > timeout
TimedOut(elapsed) == elapsed > Timeout * TicksPerSec


TruthyAlways(u) == TRUE

\* 'if upid:' on result.get('data', '')
Truthy(u) == u # ""

\* result.get('data', ''): the task identifier of a reply, '' without one
ReplyUpid(r, task) == IF r = "upid" THEN task ELSE ""

IsRunningUnlessStopped(s) == s # "stopped"

\* current_status == 'running'
IsRunning(s) == s = "running"

\* status_result.get('data', {}).get('status', 'unknown')
CurrentStatus(r) == IF r = "" THEN "unknown" ELSE r

\* the ssl context of a request: TRUE when the certificate is verified.
\* ProxmoxAPI follows verify_ssl; api_request always sets CERT_NONE
CertVerified(client) == client = "ProxmoxAPI" /\ verify_ssl

\* get_task_status goes through api_request
PollClient == "api_request"

AfterExceptRetry == "main"

\* where main() is after an except clause: notify, then return or exit
AfterExcept == "done"

(***************************************************************************)
(* The argument string.  A token is ":" or a piece of text without a       *)
(* colon; the string is the concatenation of its tokens.                   *)
(***************************************************************************)
IsTripleAt(s, i) ==
    i + 2 <= Len(s) /\ s[i] = ":" /\ s[i + 1] = ":" /\ s[i + 2] = ":"

\* ':::' in s
HasTriple(s) == \E i \in 1..Len(s) : IsTripleAt(s, i)

FirstTriple(s) ==
    CHOOSE i \in 1..Len(s) :
        IsTripleAt(s, i) /\ \A j \in 1..(i - 1) : ~IsTripleAt(s, j)

\* s.split(':::', 1), for s with ':::' in it
SplitTripleOnce(s) ==
    LET i == FirstTriple(s)
    IN  << SubSeq(s, 1, i - 1), SubSeq(s, i + 3, Len(s)) >>

RECURSIVE SplitTriple(_)
\* s.split(':::')
SplitTriple(s) ==
    IF ~HasTriple(s) THEN << s >>
    ELSE LET i == FirstTriple(s)
         IN  << SubSeq(s, 1, i - 1) >>
             \o SplitTriple(SubSeq(s, i + 3, Len(s)))

RECURSIVE SplitColon(_)
\* s.split(':')
SplitColon(s) ==
    IF \A i \in 1..Len(s) : s[i] # ":" THEN << s >>
    ELSE LET i == CHOOSE k \in 1..Len(s) :
                     s[k] = ":" /\ \A j \in 1..(k - 1) : s[j] # ":"
         IN  << SubSeq(s, 1, i - 1) >> \o SplitColon(SubSeq(s, i + 1, Len(s)))

RECURSIVE Text(_)
\* the string a sequence of tokens (or of characters) spells
Text(s) == IF s = << >> THEN "" ELSE s[1] \o Text(Tail(s))

RECURSIVE Colons(_)
\* ':'.join(fields), each field one piece of text
Colons(fields) ==
    IF Len(fields) = 0 THEN << >>
    ELSE IF Len(fields) = 1 THEN << fields[1] >>
    ELSE << fields[1], ":" >> \o Colons(Tail(fields))

Triple == << ":", ":", ":" >>

RECURSIVE JoinColon(_)
\* ':'.join(pieces), each piece a sequence of tokens
JoinColon(pieces) ==
    IF Len(pieces) = 0 THEN << >>
    ELSE IF Len(pieces) = 1 THEN pieces[1]
    ELSE pieces[1] \o << ":" >> \o JoinColon(Tail(pieces))

\* the lister's values when the argument does not come from it
NoLister ==
    [node |-> "", vmtype |-> "", vmid |-> "", name |-> << >>,
     snap_name |-> << >>, is_running |-> FALSE, has_vmstate |-> FALSE]

\* node, vmid and name before the parse
NoTarget == [node |-> "", vmid |-> "", name |-> ""]

\* len(sys.argv) < 2 or not sys.argv[1] or sys.argv[1] in [...]
NoAction(a) == a = << >> \/ Text(a) \in {"{query}", "(null)"}

\* main_part of the first parse
MainPart(a) == IF HasTriple(a) THEN SplitTripleOnce(a)[1] ELSE a

\* parts = main_part.split(':') (or arg.split(':'))
Parts(a) == SplitColon(MainPart(a))

\* description: the text after the first ':::', None ("") when empty
DescriptionOf(a) == IF HasTriple(a) THEN Text(SplitTripleOnce(a)[2]) ELSE ""

TooFewPartsBelowFour(parts) == Len(parts) < 4

\* if len(parts) < 5
TooFewParts(parts) == Len(parts) < 5

\* if len(triple_parts) < 4
TooFewTripleParts(tp) == Len(tp) < 4

(***************************************************************************)
(* The snapshot namer (snapshot branch, lines 277-289).  A name is a       *)
(* sequence of characters.                                                 *)
(***************************************************************************)
DigitChars == << "0", "1", "2", "3", "4", "5", "6", "7", "8", "9" >>

IsDigitChar(c) == \E i \in 1..10 : DigitChars[i] = c

DigitValue(c) == (CHOOSE i \in 1..10 : DigitChars[i] = c) - 1

SnapPrefix == << "s", "n", "a", "p" >>

\* name.startswith('snap')
StartsWithSnap(name) == Len(name) >= 4 /\ SubSeq(name, 1, 4) = SnapPrefix

\* name[4:]
Suffix(name) == SubSeq(name, 5, Len(name))

\* s.isdigit(): not empty, and every character a digit
IsDigitStr(s) == Len(s) > 0 /\ \A i \in 1..Len(s) : IsDigitChar(s[i])

RECURSIVE ParseInt(_)
\* int(s) for a string of digits
ParseInt(s) ==
    IF s = << >> THEN 0
    ELSE ParseInt(SubSeq(s, 1, Len(s) - 1)) * 10 + DigitValue(s[Len(s)])

RECURSIVE IntToStr(_)
\* str(n) for n >= 0
IntToStr(n) ==
    IF n < 10 THEN << DigitChars[n + 1] >>
    ELSE IntToStr(n \div 10) \o << DigitChars[(n % 10) + 1] >>

\* startswith('snap') and name[4:].isdigit()
Conforming(name) == StartsWithSnap(name) /\ IsDigitStr(Suffix(name))

NewMaxLast(num, max) == num

\* if num > max_snap_num: max_snap_num = num
NewMax(num, max) == IF num > max THEN num ELSE max

RECURSIVE MaxSnapNum(_, _, _)
\* the for loop over snapshots, from entry i on, with max_snap_num = max
MaxSnapNum(snaps, i, max) ==
    IF i > Len(snaps) THEN max
    ELSE IF Conforming(snaps[i])
         THEN MaxSnapNum(snaps, i + 1, NewMax(ParseInt(Suffix(snaps[i])), max))
         ELSE MaxSnapNum(snaps, i + 1, max)

NextSnapNameNoIncrement(snaps) ==
    SnapPrefix \o IntToStr(MaxSnapNum(snaps, 1, 0))

\* snap_name = f"snap{next_snap_num}"
NextSnapName(snaps) == SnapPrefix \o IntToStr(MaxSnapNum(snaps, 1, 0) + 1)

\* the names the listings are made of
NameUniverse ==
    << SnapPrefix \o << "1" >>,
       SnapPrefix \o << "2" >>,
       SnapPrefix \o << "7" >>,
       << "c", "u", "r", "r", "e", "n", "t" >>,
       << "c", "u", "s", "t", "o", "m" >>,
       SnapPrefix \o << "0", "0", "9" >>,
       SnapPrefix \o << "1", "0" >>,
       SnapPrefix,
       SnapPrefix \o << "3", "a" >>,
       << "4", "s", "n", "a", "p" >>,
       << >> >>

RECURSIVE Ascending(_)
\* the names with the indices I, in the order of NameUniverse
Ascending(I) ==
    IF I = {} THEN << >>
    ELSE LET m == CHOOSE k \in I : \A j \in I : k <= j
         IN  << NameUniverse[m] >> \o Ascending(I \ {m})

Reversed(s) == [i \in 1..Len(s) |-> s[Len(s) + 1 - i]]

\* the listings the namer is checked on: up to MaxListing names, in the
\* order of NameUniverse and in the opposite order
Listings ==
    LET sets == {I \in SUBSET (1..Len(NameUniverse)) :
                    Cardinality(I) <= MaxListing}
    IN  {Ascending(I) : I \in sets} \cup {Reversed(Ascending(I)) : I \in sets}

\* the listings of the snapshot flow
FlowListings ==
    { << >>,
      Ascending({1, 2, 3, 4, 5}),
      Ascending({4, 5, 6}) }

(***************************************************************************)
(* The arguments main() is started with.                                   *)
(***************************************************************************)
Target(a, vt) == Colons(<< a, "pve", vt, "100", "web" >>)

WellFormedArgs ==
    {Target(a, vt) : a \in PowerActions \cup {"snapshot", "snapshot_ram"},
                     vt \in VmTypes}
    \cup {Target(a, vt) \o Triple \o d :
            a \in {"snapshot_with_desc", "snapshot_ram_with_desc"},
            vt \in VmTypes,
            d \in {<< >>, << "before upgrade" >>}}
    \cup {Target("rollback_exec", vt) \o Triple \o << "snap1" >>
            \o Triple \o << w >> \o Triple \o << v >> :
            vt \in VmTypes, w \in WasRunningFields, v \in VmstateFields}

MalformedArgs ==
    { << >>,
      << "{query}" >>,
      << "start" >>,
      Colons(<< "start", "pve", "qemu", "100" >>),
      Colons(<< "snapshot_ram", "pve", "lxc" >>),
      Colons(<< "rollback_exec", "pve", "qemu", "100" >>)
          \o Triple \o << "snap1" >> \o Triple \o << "true" >>
          \o Triple \o << "0" >>,
      Target("rollback_exec", "qemu"),
      Target("rollback_exec", "qemu") \o Triple \o << "snap1" >>,
      Target("rollback_exec", "lxc") \o Triple \o << "snap1" >>
          \o Triple \o << "true" >> }

OtherArgs == { Target("frobnicate", "qemu") }

Args == WellFormedArgs \cup MalformedArgs \cup OtherArgs

(***************************************************************************)
(* Initial state: main() is entered with sys.argv[1] = arg.                *)
(***************************************************************************)
InitLocals ==
    /\ action = ""
    /\ vmtype = ""
    /\ target = NoTarget
    /\ description = ""
    /\ was_running_field = ""
    /\ has_vmstate_field = ""
    /\ was_running = FALSE
    /\ has_vmstate = FALSE
    /\ current_status = ""
    /\ currently_running = FALSE
    /\ snap_name = << >>
    /\ result = ""
    /\ success = FALSE
    /\ upid = ""
    /\ start_upid = ""
    /\ exit_code = 0
    /\ notes = << >>
    /\ reqs = << >>
    /\ polls = [t \in Tasks |-> 0]
    /\ now = 0
    /\ wpc = "idle"
    /\ w_upid = ""
    /\ w_name = ""
    /\ start_time = 0
    /\ sleeps = 0
    /\ status = NoReply
    /\ wret = FALSE

Init ==
    /\ pc = "start"
    /\ lister = NoLister
    /\ arg \in Args
    /\ verify_ssl \in BOOLEAN
    /\ snapshots = << >>
    /\ InitLocals

\* main() up to the dispatch on action, lines 200-232
Parse ==
    /\ pc = "start"
    /\ IF NoAction(arg)
       THEN /\ notes' = Append(notes, Note("Proxmox", "no_action", "", ""))
            /\ pc' = "done"
            /\ UNCHANGED << action, vmtype, target, description >>
       ELSE IF TooFewParts(Parts(arg))
       THEN /\ notes' = Append(notes, Note("Proxmox Error", "invalid_format",
                                           "", ""))
            /\ pc' = "done"
            /\ UNCHANGED << action, vmtype, target, description >>
       ELSE /\ action' = Text(Parts(arg)[1])
            /\ vmtype' = Text(Parts(arg)[3])
            /\ target' = [node |-> Text(Parts(arg)[2]),
                          vmid |-> Text(Parts(arg)[4]),
                          name |-> Text(JoinColon(SubSeq(Parts(arg), 5,
                                                         Len(Parts(arg)))))]
            /\ description' = DescriptionOf(arg)
            /\ pc' = "main"
            /\ UNCHANGED notes
    /\ UNCHANGED << lister, arg, verify_ssl, was_running_field,
                    has_vmstate_field, flags, snapvars, result, upid,
                    start_upid, exit_code, reqs, polls, now, waitvars >>

\* the else branch of the dispatch on action, line 376
UnknownAction ==
    /\ pc = "main"
    /\ action \notin Actions \cup LocalActions
    /\ notes' = Append(notes, Note("Proxmox Error", "unknown_action", "",
                                   action))
    /\ pc' = "done"
    /\ UNCHANGED << inputs, flags, snapvars, result, upid, start_upid,
                    exit_code, reqs, polls, now, waitvars >>

(***************************************************************************)
(* wait_for_task                                                           *)
(***************************************************************************)
\* the call wait_for_task(node, upid, action_name, vm_name), at time t
EnterWait(task, name, t) ==
    /\ wpc' = "check"
    /\ w_upid' = task
    /\ w_name' = name
    /\ start_time' = t
    /\ sleeps' = 0
    /\ status' = NoReply
    /\ wret' = FALSE

\* elapsed = time.time() - start_time; if elapsed > timeout: notify, return
WaitCheck ==
    /\ wpc = "check"
    /\ IF TimedOut(now - start_time)
       THEN /\ notes' = Append(notes, Note("Proxmox", "timed_out", w_name, ""))
            /\ wret' = WaitReturns("timed_out")
            /\ wpc' = "ret"
       ELSE /\ wpc' = "query"
            /\ UNCHANGED << notes, wret >>
    /\ UNCHANGED << pc, inputs, flags, snapvars, result, upid, start_upid,
                    exit_code, reqs, polls, now, w_upid, w_name, start_time,
                    sleeps, status >>

\* status = get_task_status(node, upid): a reply, or an exception
WaitQuery ==
    /\ wpc = "query"
    /\ \E r \in TaskReplies, d \in ReqTicks :
          /\ status' = r
          /\ now' = now + d
    /\ polls' = [polls EXCEPT ![w_upid] = @ + 1]
    /\ wpc' = "handle"
    /\ UNCHANGED << pc, inputs, flags, snapvars, result, upid, start_upid,
                    exit_code, notes, reqs, w_upid, w_name, start_time,
                    sleeps, wret >>

\* the rest of the iteration: notify and return, or sleep
WaitHandle ==
    /\ wpc = "handle"
    /\ LET c == Classify(status) IN
       CASE c = "completed" ->
              /\ notes' = Append(notes,
                                 Note("Proxmox", "completed", w_name, ""))
              /\ wret' = WaitReturns("completed")
              /\ wpc' = "ret"
              /\ UNCHANGED << now, sleeps >>
         [] c = "failed" ->
              /\ notes' = Append(notes, Note("Proxmox", "failed", w_name,
                                             FailedDetail(status)))
              /\ wret' = WaitReturns("failed")
              /\ wpc' = "ret"
              /\ UNCHANGED << now, sleeps >>
         [] OTHER ->
              /\ IF SleepsOn(status)
                 THEN /\ \E s \in SleepTicks(PollInterval) : now' = now + s
                      /\ sleeps' = sleeps + 1
                 ELSE UNCHANGED << now, sleeps >>
              /\ wpc' = "check"
              /\ UNCHANGED << notes, wret >>
    /\ UNCHANGED << pc, inputs, flags, snapvars, result, upid, start_upid,
                    exit_code, reqs, polls, w_upid, w_name, start_time,
                    status >>

(***************************************************************************)
(* main: the handlers of the outer try                                     *)
(***************************************************************************)
\* except urllib.error.HTTPError / except Exception, lines 378-383
OuterExcept(err) ==
    IF err = "http"
    THEN Note("Proxmox Error", "api_error", "", "body")
    ELSE Note("Proxmox Error", "exception", "", err)

(***************************************************************************)
(* execute_action_with_tracking                                            *)
(***************************************************************************)
PowerDispatch ==
    /\ pc = "main"
    /\ action \in PowerActions
    /\ \E r \in DispatchReplies, d \in DispatchTicks :
          /\ now' = now + d
          /\ result' = r
          /\ reqs' = Append(reqs, Req("POST", StatusEndpoint(action), {},
                                      "api_request"))
          /\ IF r \in ErrorReplies
             THEN /\ notes' = Append(notes, OuterExcept(r))
                  /\ pc' = AfterExcept
                  /\ UNCHANGED << upid, waitvars >>
             ELSE /\ upid' = ReplyUpid(r, "power")
                  /\ notes' = Append(notes, Note("Proxmox", "starting",
                                                 EmojiLabel(action), ""))
                  /\ IF Truthy(upid')
                     THEN /\ EnterWait(upid', ActionName(action), now')
                          /\ pc' = "power_wait"
                     ELSE /\ pc' = "done"
                          /\ UNCHANGED waitvars
    /\ UNCHANGED << inputs, flags, snapvars, start_upid, exit_code, polls >>

\* wait_for_task returned to execute_action_with_tracking
PowerReturn ==
    /\ pc = "power_wait"
    /\ wpc = "ret"
    /\ pc' = "done"
    /\ wpc' = "idle"
    /\ UNCHANGED << inputs, flags, snapvars, result, upid, start_upid,
                    exit_code, notes, reqs, polls, now, w_upid, w_name,
                    start_time, sleeps, status, wret >>

(***************************************************************************)
(* The text of the exceptions the two HTTP clients raise.                  *)
(***************************************************************************)
\* ProxmoxAPI._request: Exception("API Error {code}: {body}") and
\* Exception("Connection Error: {reason}")
ApiClientError(err) ==
    IF err = "http" THEN "API Error code: body" ELSE "Connection Error: reason"

\* api_request lets urllib's HTTPError / URLError through; str() of them
RawClientError(err) ==
    IF err = "http" THEN "HTTP Error code: reason" ELSE "urlopen error reason"

(***************************************************************************)
(* main: the snapshot branch                                               *)
(***************************************************************************)
\* except Exception of the snapshot branch, lines 304-306
SnapshotExcept(text) == Note("Snapshot Failed", "exception", "", text)

\* api.get_snapshots, the name, the 'Creating ...' notification
SnapList ==
    /\ pc = "main"
    /\ action \in SnapshotActions
    /\ \E r \in {"ok"} \cup ErrorReplies, d \in DispatchTicks :
          /\ now' = now + d
          /\ result' = r
          /\ reqs' = Append(reqs, Req("GET", "snapshot", {}, "ProxmoxAPI"))
          /\ IF r \in ErrorReplies
             THEN /\ notes' = Append(notes, SnapshotExcept(ApiClientError(r)))
                  /\ exit_code' = 1
                  /\ pc' = AfterExcept
                  /\ UNCHANGED snapvars
             ELSE /\ \E l \in FlowListings : snapshots' = l
                  /\ snap_name' = NextSnapName(snapshots')
                  /\ notes' = Append(notes, Note("Proxmox", "creating",
                                                 SnapType(action), ""))
                  /\ pc' = "snap_create"
                  /\ UNCHANGED exit_code
    /\ UNCHANGED << inputs, flags, upid, start_upid, polls, waitvars >>

\* api.create_snapshot and what follows it
SnapCreate ==
    /\ pc = "snap_create"
    /\ \E r \in DispatchReplies, d \in DispatchTicks :
          /\ now' = now + d
          /\ result' = r
          /\ reqs' = Append(reqs,
                 Req("POST", "snapshot",
                     SnapshotData(vmtype, Text(snap_name), description,
                                  IncludeRam(action)),
                     "ProxmoxAPI"))
          /\ IF r \in ErrorReplies
             THEN /\ notes' = Append(notes, SnapshotExcept(ApiClientError(r)))
                  /\ exit_code' = 1
                  /\ pc' = AfterExcept
                  /\ UNCHANGED << upid, waitvars >>
             ELSE /\ upid' = ReplyUpid(r, "snapshot")
                  /\ UNCHANGED exit_code
                  /\ IF Truthy(upid')
                     THEN /\ EnterWait(upid', SnapTypeCapitalized(action),
                                       now')
                          /\ pc' = "snap_wait"
                          /\ UNCHANGED notes
                     ELSE /\ notes' = Append(notes,
                                 Note("Proxmox", "created",
                                      SnapTypeCapitalized(action), ""))
                          /\ pc' = "done"
                          /\ UNCHANGED waitvars
    /\ UNCHANGED << inputs, flags, snapvars, start_upid, polls >>

\* wait_for_task returned to the snapshot branch
SnapReturn ==
    /\ pc = "snap_wait"
    /\ wpc = "ret"
    /\ pc' = "done"
    /\ wpc' = "idle"
    /\ UNCHANGED << inputs, flags, snapvars, result, upid, start_upid,
                    exit_code, notes, reqs, polls, now, w_upid, w_name,
                    start_time, sleeps, status, wret >>

(***************************************************************************)
(* main: the rollback_exec branch                                          *)
(***************************************************************************)
\* except Exception of the rollback_exec branch, lines 371-373
RollbackExcept(text) == Note("Rollback Failed", "exception", "", text)

\* the test of triple_parts, the flags, the status/current query and the
\* 'Rolling back' notification
RbStatus ==
    /\ pc = "main"
    /\ action = "rollback_exec"
    /\ IF TooFewTripleParts(SplitTriple(arg))
       THEN /\ notes' = Append(notes, Note("Proxmox Error",
                                           "invalid_rollback_format", "", ""))
            /\ pc' = "done"
            /\ UNCHANGED << was_running_field, has_vmstate_field, flags,
                            snap_name, result, exit_code, reqs, now >>
       ELSE
         /\ snap_name' = SplitTriple(arg)[2]
         /\ was_running_field' = Text(SplitTriple(arg)[3])
         /\ has_vmstate_field' = Text(SplitTriple(arg)[4])
         /\ was_running' = ParseWasRunning(was_running_field')
         /\ has_vmstate' = ParseHasVmstate(has_vmstate_field')
         /\ UNCHANGED success
         /\ \E r \in CurrentStatusValues \cup ErrorReplies, d \in DispatchTicks :
               /\ now' = now + d
               /\ reqs' = Append(reqs, Req("GET", "status/current", {},
                                           "api_request"))
               /\ IF r \in ErrorReplies
                  THEN /\ result' = r
                       /\ notes' = Append(notes,
                                      RollbackExcept(RawClientError(r)))
                       /\ exit_code' = 1
                       /\ pc' = AfterExcept
                       /\ UNCHANGED << current_status, currently_running >>
                  ELSE /\ result' = "ok"
                       /\ current_status' = CurrentStatus(r)
                       /\ currently_running' = IsRunning(current_status')
                       /\ notes' = Append(notes,
                                      Note("Proxmox", "rolling_back",
                                           "Rollback", ""))
                       /\ pc' = "rb_dispatch"
                       /\ UNCHANGED exit_code
    /\ UNCHANGED << lister, arg, verify_ssl, action, vmtype, target,
                    description, snapshots, upid, start_upid, polls,
                    waitvars >>

\* api.rollback_snapshot and what follows it up to wait_for_task
RbDispatch ==
    /\ pc = "rb_dispatch"
    /\ \E r \in DispatchReplies, d \in DispatchTicks :
          /\ now' = now + d
          /\ result' = r
          /\ reqs' = Append(reqs, Req("POST", "rollback", {}, "ProxmoxAPI"))
          /\ IF r \in ErrorReplies
             THEN /\ notes' = Append(notes, RollbackExcept(ApiClientError(r)))
                  /\ exit_code' = 1
                  /\ pc' = AfterExcept
                  /\ UNCHANGED << upid, waitvars >>
             ELSE /\ upid' = ReplyUpid(r, "rollback")
                  /\ UNCHANGED exit_code
                  /\ IF Truthy(upid')
                     THEN /\ EnterWait(upid', "Rollback", now')
                          /\ pc' = "rb_wait"
                          /\ UNCHANGED notes
                     ELSE /\ notes' = Append(notes,
                                 Note("Proxmox", "rollback_initiated",
                                      "Rollback", ""))
                          /\ pc' = "done"
                          /\ UNCHANGED waitvars
    /\ UNCHANGED << inputs, flags, snapvars, start_upid, polls >>

SettleTicksNone == {0}

\* time.sleep(1) before the start after a rollback, line 362
SettleTicks == SleepTicks(SettleDelay)

\* success = wait_for_task(...); the restart decision, the settle delay
\* and the 'Starting ... after rollback' notification
RbReturn ==
    /\ pc = "rb_wait"
    /\ wpc = "ret"
    /\ success' = wret
    /\ wpc' = "idle"
    /\ IF ShouldRestart(wret, was_running, currently_running, has_vmstate)
       THEN /\ \E s \in SettleTicks : now' = now + s
            /\ notes' = Append(notes, Note("Proxmox",
                                   "starting_after_rollback", "Start", ""))
            /\ pc' = "start_dispatch"
       ELSE /\ pc' = "done"
            /\ UNCHANGED << now, notes >>
    /\ UNCHANGED << inputs, was_running, has_vmstate, current_status,
                    currently_running, snapvars, result, upid, start_upid,
                    exit_code, reqs, polls, w_upid, w_name, start_time,
                    sleeps, status, wret >>

\* the POST to status/start and what follows it
StartDispatch ==
    /\ pc = "start_dispatch"
    /\ \E r \in DispatchReplies, d \in DispatchTicks :
          /\ now' = now + d
          /\ result' = r
          /\ reqs' = Append(reqs, Req("POST", "status/start", {},
                                      "api_request"))
          /\ IF r \in ErrorReplies
             THEN /\ notes' = Append(notes, RollbackExcept(RawClientError(r)))
                  /\ exit_code' = 1
                  /\ pc' = AfterExcept
                  /\ UNCHANGED << start_upid, waitvars >>
             ELSE /\ start_upid' = ReplyUpid(r, "start")
                  /\ UNCHANGED << notes, exit_code >>
                  /\ IF Truthy(start_upid')
                     THEN /\ EnterWait(start_upid', "Start after rollback",
                                       now')
                          /\ pc' = "start_wait"
                     ELSE /\ pc' = "done"
                          /\ UNCHANGED waitvars
    /\ UNCHANGED << inputs, flags, snapvars, upid, polls >>

\* wait_for_task returned to the rollback_exec branch for the start task
StartReturn ==
    /\ pc = "start_wait"
    /\ wpc = "ret"
    /\ pc' = "done"
    /\ wpc' = "idle"
    /\ UNCHANGED << inputs, flags, snapvars, result, upid, start_upid,
                    exit_code, notes, reqs, polls, now, w_upid, w_name,
                    start_time, sleeps, status, wret >>

Next ==
    \/ Parse
    \/ UnknownAction
    \/ WaitCheck
    \/ WaitQuery
    \/ WaitHandle
    \/ PowerDispatch
    \/ PowerReturn
    \/ SnapList
    \/ SnapCreate
    \/ SnapReturn
    \/ RbStatus
    \/ RbDispatch
    \/ RbReturn
    \/ StartDispatch
    \/ StartReturn

Spec == Init /\ [][Next]_vars

(***************************************************************************)
(* The snapshot namer on its own: every listing of Listings is named.      *)
(***************************************************************************)
InitNamer ==
    /\ pc = "namer"
    /\ lister = NoLister
    /\ arg = << >>
    /\ verify_ssl = FALSE
    /\ snapshots \in Listings
    /\ InitLocals

\* lines 277-289 applied to the listing
Namer ==
    /\ pc = "namer"
    /\ snap_name' = NextSnapName(snapshots)
    /\ pc' = "named"
    /\ UNCHANGED << inputs, flags, snapshots, result, upid, start_upid,
                    exit_code, notes, reqs, polls, now, waitvars >>

NextNamer == Namer

SpecNamer == InitNamer /\ [][NextNamer]_vars

(***************************************************************************)
(* The rollback argument from list_snapshots.py to the rollback_exec       *)
(* branch: the lister builds the argument, main() takes it apart.          *)
(***************************************************************************)
\* display names, as token sequences: plain, with one colon, with two
\* colons in a row, ending in a colon, starting with a colon, with ':::'
ListerNames ==
    { << "web" >>,
      << "my", ":", "vm" >>,
      << "a", ":", ":", "b" >>,
      << "web", ":" >>,
      << ":", "x" >>,
      << "a", ":", ":", ":", "b" >> }

ListerSnapNames == { << "snap1" >>, << "before_upgrade" >> }

ListerInputs ==
    [node : {"pve"}, vmtype : VmTypes, vmid : {"100"}, name : ListerNames,
     snap_name : ListerSnapNames, is_running : BOOLEAN,
     has_vmstate : BOOLEAN]

\* was_running_str = 'true' if is_running else 'false'
WasRunningStr(b) == IF b THEN "true" ELSE "false"

\* {1 if has_vmstate else 0}
VmstateStr(b) == IF b THEN "1" ELSE "0"

\* rollback_arg of list_snapshots.py, line 129
RollbackArg(l) ==
    Colons(<< "rollback_exec", l.node, l.vmtype, l.vmid >>)
    \o << ":" >> \o l.name
    \o Triple \o l.snap_name
    \o Triple \o << WasRunningStr(l.is_running) >>
    \o Triple \o << VmstateStr(l.has_vmstate) >>

InitCodec ==
    /\ pc = "lister"
    /\ lister \in ListerInputs
    /\ arg = << >>
    /\ verify_ssl = FALSE
    /\ snapshots = << >>
    /\ InitLocals

\* the lister builds the argument and main() is started with it
BuildArg ==
    /\ pc = "lister"
    /\ arg' = RollbackArg(lister)
    /\ pc' = "start"
    /\ UNCHANGED << lister, verify_ssl, action, vmtype, target, description,
                    was_running_field, has_vmstate_field, flags, snapvars,
                    result, upid, start_upid, exit_code, notes, reqs, polls,
                    now, waitvars >>

NextCodec ==
    \/ BuildArg
    \/ Parse
    \/ RbStatus

SpecCodec == InitCodec /\ [][NextCodec]_vars

(***************************************************************************)
(* Vocabulary of the properties.                                           *)
(***************************************************************************)
InRollback == action = "rollback_exec"

\* a POST to .../status/start has been sent in the rollback flow
StartDispatched ==
    \E i \in DOMAIN reqs :
        reqs[i].method = "POST" /\ reqs[i].ep = "status/start"

\* the poll of the rollback task ended with status 'stopped', exit 'OK'
RollbackSucceeded ==
    \E i \in DOMAIN notes :
        notes[i] = Note("Proxmox", "completed", "Rollback", "")

\* the notifications that report a failure
IsFailureNote(n) == n.kind \in {"failed", "exception", "api_error"}

FailureNotes == {i \in DOMAIN notes : IsFailureNote(notes[i])}

\* wait_for_task has handled the reply held in status
ReplyHandled == wpc \in {"ret", "idle"} /\ w_upid # ""

StoppedOk(r) == ~r.err /\ r.status = "stopped" /\ r.exitstatus = "OK"

StoppedNotOk(r) == ~r.err /\ r.status = "stopped" /\ r.exitstatus # "OK"

(***************************************************************************)
(* C1: in the rollback flow, once the rollback task was polled to          *)
(* 'stopped'/'OK' and the flow has ended, a start request has been sent    *)
(* if and only if (was_running or currently_running) and not has_vmstate;  *)
(* and no start request is ever sent without that condition and a          *)
(* successful rollback.                                                    *)
(***************************************************************************)
C1_RestartIff ==
    InRollback =>
      /\ (RollbackSucceeded /\ pc = "done") =>
            (StartDispatched <=>
               ((was_running \/ currently_running) /\ ~has_vmstate))
      /\ (StartDispatched \/ pc = "start_dispatch") =>
            /\ RollbackSucceeded
            /\ (was_running \/ currently_running) /\ ~has_vmstate

C1_Witness ==
    /\ InRollback
    /\ pc = "done"
    /\ RollbackSucceeded
    /\ was_running /\ ~currently_running /\ ~has_vmstate
    /\ StartDispatched

(***************************************************************************)
(* C2: in the rollback flow with has_vmstate true no start request is      *)
(* ever sent, whatever the running flags and the outcome of the rollback   *)
(* task.                                                                   *)
(***************************************************************************)
C2_NoStartWithVmstate ==
    (InRollback /\ has_vmstate) =>
        /\ ~StartDispatched
        /\ pc \notin {"start_dispatch", "start_wait"}
        /\ start_upid = ""

C2_Witness ==
    /\ InRollback
    /\ has_vmstate /\ was_running /\ currently_running
    /\ RollbackSucceeded
    /\ pc = "done"

(***************************************************************************)
(* C3: once the poller has seen the rollback task 'stopped' with an exit   *)
(* reason other than 'OK', no start request is sent and the invocation     *)
(* holds exactly one failure notification.                                 *)
(***************************************************************************)
C3_FailedRollbackNoStart ==
    (InRollback /\ w_upid = "rollback" /\ ReplyHandled /\ StoppedNotOk(status))
    =>
        /\ ~StartDispatched
        /\ pc \notin {"start_dispatch", "start_wait"}
        /\ Cardinality(FailureNotes) = 1
        /\ \A i \in FailureNotes :
              notes[i] = Note("Proxmox", "failed", "Rollback",
                              status.exitstatus)

C3_Witness ==
    /\ InRollback
    /\ w_upid = "rollback" /\ ReplyHandled /\ StoppedNotOk(status)
    /\ was_running /\ ~has_vmstate
    /\ pc = "done"

(***************************************************************************)
(* C4: after the rollback success notification no notification names the   *)
(* rollback as failed, whatever the follow-up start does (dispatch error,  *)
(* task failure, task timeout).                                            *)
(***************************************************************************)
C4_RollbackNotReportedFailedAfterSuccess ==
    \A i, j \in DOMAIN notes :
        (i < j /\ notes[i] = Note("Proxmox", "completed", "Rollback", ""))
        => notes[j].title # "Rollback Failed"

(***************************************************************************)
(* C5: in every poll iteration the reply decides the step: 'stopped' with  *)
(* 'OK' returns True after a 'completed' notification; 'stopped' with any  *)
(* other exit reason returns False after a 'failed' notification that      *)
(* carries the literal exit reason; any other status (a missing one        *)
(* included) notifies nothing and goes back to the top of the loop.        *)
(***************************************************************************)
C5_Classification ==
    [][ (wpc = "handle" /\ ~status.err) =>
          IF status.status = "stopped"
          THEN /\ wpc' = "ret"
               /\ IF status.exitstatus = "OK"
                  THEN /\ wret' = TRUE
                       /\ notes' = Append(notes,
                              Note("Proxmox", "completed", w_name, ""))
                  ELSE /\ wret' = FALSE
                       /\ notes' = Append(notes,
                              Note("Proxmox", "failed", w_name,
                                   status.exitstatus))
          ELSE /\ wpc' = "check"
               /\ notes' = notes ]_vars

C5_Witness ==
    /\ wpc = "ret"
    /\ polls[w_upid] >= 2
    /\ StoppedNotOk(status)
    /\ status.exitstatus = "interrupted"
    /\ notes[Len(notes)] = Note("Proxmox", "failed", w_name, "interrupted")
    /\ ~wret

(***************************************************************************)
(* C6: the value wait_for_task returns when it times out differs from the  *)
(* value it returns for a task that stopped with a non-OK exit reason.     *)
(***************************************************************************)
C6_TimeoutDistinctFromFailure ==
    (wpc = "ret" /\ notes[Len(notes)].kind = "timed_out")
    => wret # WaitReturns("failed")

(***************************************************************************)
(* C7: a status query that raises ends nothing and notifies nothing: the   *)
(* poller sleeps at least one interval and is back at the top of the       *)
(* loop; a poll that returns right after a 'stopped'/'OK' reply returns    *)
(* True, and a poll whose last query raised returned by timeout.           *)
(***************************************************************************)
C7_QueryErrorSwallowed ==
    /\ [][ (wpc = "handle" /\ status.err) =>
             /\ wpc' = "check"
             /\ notes' = notes
             /\ pc' = pc
             /\ now' >= now + PollInterval * TicksPerSec ]_vars
    /\ [] ( (wpc = "ret" /\ StoppedOk(status)) => wret )
    /\ [] ( (wpc = "ret" /\ status.err) =>
               /\ ~wret
               /\ notes[Len(notes)] = Note("Proxmox", "timed_out", w_name, "")
               /\ TimedOut(now - start_time) )

C7_Witness ==
    /\ wpc = "ret"
    /\ status.err
    /\ polls[w_upid] >= 2
    /\ notes[Len(notes)].kind = "timed_out"

(***************************************************************************)
(* C8: at the end of the invocation every task that was given a task       *)
(* identifier has exactly one 'initiated' notification and exactly one     *)
(* terminal notification (success, failure or timeout).                    *)
(***************************************************************************)
\* the task identifiers the invocation received
GotTaskId(t) ==
    CASE t = "power" -> action \in PowerActions /\ upid # ""
      [] t = "snapshot" -> action \in SnapshotActions /\ upid # ""
      [] t = "rollback" -> InRollback /\ upid # ""
      [] t = "start" -> InRollback /\ start_upid # ""

IsInitiatedNote(t, n) ==
    CASE t = "power" -> n.kind = "starting"
      [] t = "snapshot" -> n.kind = "creating"
      [] t = "rollback" -> n.kind = "rolling_back"
      [] t = "start" -> n.kind = "starting_after_rollback"

IsTerminalNote(t, n) ==
    CASE t = "power" ->
            n.kind \in {"completed", "failed", "timed_out"}
      [] t = "snapshot" ->
            n.kind \in {"completed", "failed", "timed_out"}
      [] t = "rollback" ->
            \/ n.kind \in {"completed", "failed", "timed_out"}
               /\ n.subject = "Rollback"
            \/ n.title = "Rollback Failed"
      [] t = "start" ->
            n.kind \in {"completed", "failed", "timed_out"}
            /\ n.subject = "Start after rollback"

CountNotes(P(_)) == Cardinality({i \in DOMAIN notes : P(notes[i])})

C8_OneInitiatedOneTerminal ==
    pc = "done" =>
      \A t \in Tasks :
        GotTaskId(t) =>
          /\ LET Ini(n) == IsInitiatedNote(t, n) IN CountNotes(Ini) = 1
          /\ LET Ter(n) == IsTerminalNote(t, n) IN CountNotes(Ter) = 1

(***************************************************************************)
(* C9: a power action sends exactly one request, a POST; 'restart' goes    *)
(* to .../status/reboot and never to .../status/restart, start, stop and   *)
(* shutdown go to the endpoint of their name; and once the poller has      *)
(* seen 'stopped'/'OK' there is exactly one success notification.          *)
(***************************************************************************)
C9_RestartIsReboot ==
    action \in PowerActions =>
      /\ Len(reqs) = (IF pc = "main" THEN 0 ELSE 1)
      /\ \A i \in DOMAIN reqs :
            /\ reqs[i].method = "POST"
            /\ reqs[i].ep # "status/restart"
            /\ action = "restart" => reqs[i].ep = "status/reboot"
            /\ action \in {"start", "stop", "shutdown"} =>
                  reqs[i].ep = "status/" \o action
      /\ (ReplyHandled /\ StoppedOk(status)) =>
            LET Ok(n) == n.kind = "completed" IN CountNotes(Ok) = 1

C9_Witness ==
    /\ action = "restart"
    /\ pc = "done"
    /\ ReplyHandled /\ StoppedOk(status)
    /\ reqs = << Req("POST", "status/reboot", {}, "api_request") >>
    /\ notes[Len(notes)] = Note("Proxmox", "completed", "Restart", "")

(***************************************************************************)
(* C10: a snapshot-create request carries vmstate if and only if the       *)
(* target is a VM (qemu) and the action asks for a RAM snapshot; once the  *)
(* listing has succeeded and the branch has moved on, the create request   *)
(* has been sent, for containers with RAM requested too.                   *)
(***************************************************************************)
IsSnapshotCreate(r) == r.method = "POST" /\ r.ep = "snapshot"

C10_VmstateOnlyForQemu ==
    action \in SnapshotActions =>
      /\ \A i \in DOMAIN reqs :
            IsSnapshotCreate(reqs[i]) =>
               ("vmstate" \in reqs[i].data <=>
                  (vmtype = "qemu"
                   /\ action \in {"snapshot_ram", "snapshot_ram_with_desc"}))
      /\ (Len(notes) > 0 /\ notes[1].kind = "creating"
          /\ pc \in {"snap_wait", "done"}) =>
            \E i \in DOMAIN reqs : IsSnapshotCreate(reqs[i])

C10_Witness ==
    /\ action = "snapshot_ram"
    /\ vmtype = "lxc"
    /\ pc = "done"
    /\ exit_code = 0
    /\ \E i \in DOMAIN reqs :
          IsSnapshotCreate(reqs[i]) /\ reqs[i].data = {"snapname"}
    /\ notes[Len(notes)].kind = "completed"

(***************************************************************************)
(* C11: for every listing, the name the snapshot namer returns is 'snap'   *)
(* followed by the decimal M+1, where M is the largest number written      *)
(* after 'snap' by a name of the form 'snap' + digits, and 0 when no name  *)
(* has that form; names of another form do not count, so the listing       *)
(* snap1, snap2, snap7, current, custom gives snap8 and a listing without  *)
(* a name of that form gives snap1.                                        *)
(***************************************************************************)
\* the numbers written by the names 'snap' + digits of the listing
SnapNumbers ==
    {ParseInt(Suffix(snapshots[i])) :
        i \in {j \in DOMAIN snapshots :
                  /\ StartsWithSnap(snapshots[j])
                  /\ Len(snapshots[j]) > 4
                  /\ \A k \in 5..Len(snapshots[j]) :
                        IsDigitChar(snapshots[j][k])}}

\* M of the property
MaxSnapNumber ==
    IF SnapNumbers = {} THEN 0
    ELSE CHOOSE m \in SnapNumbers : \A n \in SnapNumbers : n <= m

\* name is 'snap' followed by the decimal writing of n
IsSnapNumbered(name, n) ==
    /\ StartsWithSnap(name)
    /\ IsDigitStr(Suffix(name))
    /\ Suffix(name)[1] # "0"
    /\ ParseInt(Suffix(name)) = n

Snap8 == << "s", "n", "a", "p", "8" >>

Snap1 == << "s", "n", "a", "p", "1" >>

C11_NextSnapName ==
    pc = "named" =>
      /\ IsSnapNumbered(snap_name, MaxSnapNumber + 1)
      /\ {snapshots[i] : i \in DOMAIN snapshots}
            = {NameUniverse[k] : k \in {1, 2, 3, 4, 5}} => snap_name = Snap8
      /\ SnapNumbers = {} => snap_name = Snap1

C11_Witness ==
    /\ pc = "named"
    /\ snapshots = Reversed(Ascending({1, 2, 3, 4, 5}))
    /\ snap_name = Snap8

(***************************************************************************)
(* C12: when the reply to an initiating request carries no task            *)
(* identifier, the flow ends there: no status query is ever sent for a     *)
(* task the invocation got no identifier for, and wait_for_task is only    *)
(* ever running for a task whose identifier was received.                  *)
(***************************************************************************)
C12_NoTaskIdNoPoll ==
    /\ \A t \in Tasks : ~GotTaskId(t) => polls[t] = 0
    /\ wpc # "idle" => w_upid \in Tasks /\ GotTaskId(w_upid)
    /\ result = "noupid" => pc = "done" /\ wpc = "idle"

C12_Witness ==
    /\ pc = "done"
    /\ action \in SnapshotActions
    /\ result = "noupid"
    /\ Len(reqs) = 2
    /\ notes[Len(notes)].kind = "created"
    /\ \A t \in Tasks : polls[t] = 0

(***************************************************************************)
(* C13: at every point at most one task of the invocation has been given   *)
(* an identifier and not yet been seen stopped, and the start request of   *)
(* the rollback flow is sent only after the rollback task was polled to    *)
(* 'stopped' with exit status 'OK'.                                        *)
(***************************************************************************)
\* wait_for_task has seen task t stopped
SeenStopped(t) ==
    \E i \in DOMAIN notes :
        /\ IsTerminalNote(t, notes[i])
        /\ notes[i].kind \in {"completed", "failed"}

InFlight(t) == GotTaskId(t) /\ ~SeenStopped(t)

C13_OneTaskInFlight ==
    /\ Cardinality({t \in Tasks : InFlight(t)}) <= 1
    /\ (InRollback /\ StartDispatched) =>
          /\ RollbackSucceeded
          /\ reqs[Len(reqs)].ep = "status/start"
          /\ ~InFlight("rollback")

C13_Witness ==
    /\ pc = "start_wait"
    /\ wpc = "query"
    /\ GotTaskId("rollback")
    /\ ~InFlight("rollback")
    /\ InFlight("start")

(***************************************************************************)
(* C14: each initiating request (the power POST, the snapshot create, the  *)
(* rollback, the start after a rollback) is sent at most once in an        *)
(* invocation, also when its reply was an HTTP or a connection error.      *)
(***************************************************************************)
IsInitiating(r) ==
    r.method = "POST" /\ r.ep \in {"status/start", "status/stop",
                                   "status/shutdown", "status/reboot",
                                   "snapshot", "rollback"}

Initiating == {i \in DOMAIN reqs : IsInitiating(reqs[i])}

C14_InitiatingAtMostOnce ==
    /\ \A i, j \in Initiating : reqs[i].ep = reqs[j].ep => i = j
    /\ Cardinality(Initiating) <= (IF InRollback THEN 2 ELSE 1)

C14_Witness ==
    /\ pc = "done"
    /\ result = "conn"
    /\ Cardinality(Initiating) = 2
    /\ reqs[Len(reqs)] = Req("POST", "status/start", {}, "api_request")

(***************************************************************************)
(* C15: an argument with fewer than 5 colon-delimited fields, or a         *)
(* rollback_exec argument with fewer than 4 ':::'-delimited parts, is      *)
(* rejected before anything is sent: no request and no status query is     *)
(* made in the invocation, and it ends with exactly one notification,      *)
(* which reports the rejection.                                            *)
(***************************************************************************)
Malformed ==
    \/ Len(Parts(arg)) < 5
    \/ /\ Text(Parts(arg)[1]) = "rollback_exec"
       /\ Len(SplitTriple(arg)) < 4

IsRejection(n) ==
    n.kind \in {"no_action", "invalid_format", "invalid_rollback_format"}

C15_MalformedRejected ==
    Malformed =>
      /\ reqs = << >>
      /\ \A t \in Tasks : polls[t] = 0
      /\ wpc = "idle"
      /\ Len(notes) = (IF pc = "done" THEN 1 ELSE 0)
      /\ pc \in {"start", "main", "done"}
      /\ \A i \in DOMAIN notes : IsRejection(notes[i])

C15_Witness ==
    /\ pc = "done"
    /\ Len(Parts(arg)) = 5
    /\ Len(SplitTriple(arg)) = 3
    /\ reqs = << >>
    /\ Len(notes) = 1
    /\ notes[1].kind = "invalid_rollback_format"

(***************************************************************************)
(* C16: when a request of the flow is answered by an HTTP error status or  *)
(* fails to connect, the invocation ends with a notification of the        *)
(* failure as its last, wait_for_task is not entered, and no request and   *)
(* no status query is sent afterwards.                                     *)
(***************************************************************************)
RequestFailed == result \in {"http", "conn"}

C16_FailedRequestEndsFlow ==
    [][ /\ RequestFailed' =>
            /\ pc' = "done"
            /\ wpc' = "idle"
            /\ notes' # << >>
            /\ IsFailureNote(notes'[Len(notes')])
        /\ RequestFailed => (reqs' = reqs /\ polls' = polls /\ notes' = notes)
      ]_vars

C16_Witness ==
    /\ result = "http"
    /\ pc = "done"
    /\ reqs = << Req("GET", "status/current", {}, "api_request"),
                 Req("POST", "rollback", {}, "ProxmoxAPI") >>
    /\ notes[Len(notes)].title = "Rollback Failed"

(***************************************************************************)
(* C17: with verify_ssl configured true, every request of the invocation   *)
(* (dispatch, status query, task poll) is sent with the certificate        *)
(* verified.                                                               *)
(***************************************************************************)
C17_VerifiedWhenConfigured ==
    verify_ssl =>
      /\ \A i \in DOMAIN reqs : CertVerified(reqs[i].client)
      /\ \A t \in Tasks : polls[t] > 0 => CertVerified(PollClient)

(***************************************************************************)
(* C18: in the rollback flow exactly one status/current query is sent and  *)
(* it precedes the rollback request; currently_running is true exactly     *)
(* when that query answered 'running', whatever the was_running field of   *)
(* the argument says, and it is that value the decision to restart uses.   *)
(***************************************************************************)
IsStatusQuery(r) == r.method = "GET" /\ r.ep = "status/current"

IsRollbackRequest(r) == r.method = "POST" /\ r.ep = "rollback"

C18_FreshStateBeforeRollback ==
    InRollback =>
      /\ \A i \in DOMAIN reqs :
            /\ IsStatusQuery(reqs[i]) <=> i = 1
            /\ IsRollbackRequest(reqs[i]) <=> i = 2
      /\ currently_running <=> (current_status = "running")
      /\ (pc = "done" /\ RollbackSucceeded) =>
            (StartDispatched <=>
               ((was_running \/ current_status = "running") /\ ~has_vmstate))

C18_Witness ==
    /\ InRollback
    /\ pc = "done"
    /\ ~was_running
    /\ current_status = "running"
    /\ Len(reqs) = 3
    /\ IsStatusQuery(reqs[1])
    /\ IsRollbackRequest(reqs[2])
    /\ reqs[3].ep = "status/start"

(***************************************************************************)
(* C19: once a status query for a task has answered 'stopped', or          *)
(* wait_for_task has timed out on the task, no step of the invocation      *)
(* sends another status query for that task.                               *)
(***************************************************************************)
\* the name wait_for_task is called with for task t
WaitName(t) ==
    CASE t = "power" -> ActionName(action)
      [] t = "snapshot" -> SnapTypeCapitalized(action)
      [] t = "rollback" -> "Rollback"
      [] t = "start" -> "Start after rollback"

Ended(t) ==
    \/ w_upid = t /\ polls[t] > 0 /\ ~status.err /\ status.status = "stopped"
    \/ \E i \in DOMAIN notes :
          /\ notes[i].kind \in {"completed", "failed", "timed_out"}
          /\ notes[i].subject = WaitName(t)

C19_NoPollAfterEnd ==
    [][\A t \in Tasks : Ended(t) => polls'[t] = polls[t]]_vars

C19_Witness ==
    /\ pc = "start_wait"
    /\ Ended("rollback")
    /\ polls["rollback"] = 2
    /\ polls["start"] = 1
    /\ ~Ended("start")

(***************************************************************************)
(* C20: when wait_for_task returns on a timeout, the time since its call   *)
(* is more than the timeout and at most the timeout plus one status query  *)
(* and one sleep, and it has emitted exactly one timeout notification.     *)
(***************************************************************************)
ReturnedOnTimeout ==
    /\ wpc = "ret"
    /\ notes # << >>
    /\ notes[Len(notes)] = Note("Proxmox", "timed_out", w_name, "")

Elapsed == now - start_time

TimeoutNotes ==
    {i \in DOMAIN notes : notes[i] = Note("Proxmox", "timed_out", w_name, "")}

C20_TimeoutAfterLastPoll ==
    ReturnedOnTimeout =>
      /\ Elapsed > Timeout * TicksPerSec
      /\ Elapsed <= Timeout * TicksPerSec + MaxReqTicks
                      + PollInterval * TicksPerSec + MaxOversleep
      /\ Cardinality(TimeoutNotes) = 1

C20_Witness ==
    /\ ReturnedOnTimeout
    /\ Elapsed = Timeout * TicksPerSec + MaxReqTicks
                   + PollInterval * TicksPerSec + MaxOversleep
    /\ polls[w_upid] > 0

\* the timeout outcome is returned at an elapsed time in [T, T+1) seconds
C20_TimeoutWithinOneSecond ==
    ReturnedOnTimeout =>
      /\ Elapsed >= Timeout * TicksPerSec
      /\ Elapsed < (Timeout + 1) * TicksPerSec
      /\ Cardinality(TimeoutNotes) = 1

(***************************************************************************)
(* C21: when the k-th status query of a wait is the first to answer        *)
(* 'stopped', wait_for_task returns on that reply: it has slept k-1 times, *)
(* so at least k-1 seconds have passed, the query was sent with at most    *)
(* the timeout elapsed, the value returned is whether the exit status is   *)
(* 'OK', and the loop is never back at its top with a 'stopped' reply.     *)
(***************************************************************************)
StoppedSeen == w_upid \in Tasks /\ ~status.err /\ status.status = "stopped"

C21_ReturnsOnFirstStopped ==
    /\ (wpc \in {"handle", "ret"} /\ StoppedSeen) =>
          /\ sleeps = polls[w_upid] - 1
          /\ Elapsed >= sleeps * PollInterval * TicksPerSec
          /\ Elapsed <= Timeout * TicksPerSec + MaxReqTicks
    /\ (wpc = "ret" /\ StoppedSeen) =>
          /\ wret <=> (status.exitstatus = "OK")
          /\ notes[Len(notes)].kind \in {"completed", "failed"}
          /\ notes[Len(notes)].subject = w_name
    /\ wpc \in {"check", "query"} => ~StoppedSeen

C21_Witness ==
    /\ wpc = "ret"
    /\ StoppedOk(status)
    /\ polls[w_upid] = 3
    /\ sleeps = 2
    /\ wret
    /\ Elapsed >= 2 * PollInterval * TicksPerSec
    /\ Elapsed <= Timeout * TicksPerSec

(***************************************************************************)
(* The invocation as a running process: main() is one sequential flow in   *)
(* which every request returns or raises and every sleep ends, so a step   *)
(* that is possible is eventually taken.                                   *)
(***************************************************************************)
\* one argument of each flow
LiveArgs ==
    { Target("restart", "qemu"),
      Target("snapshot_ram", "lxc"),
      Target("rollback_exec", "qemu") \o Triple \o << "snap1" >>
          \o Triple \o << "true" >> \o Triple \o << "0" >>,
      Target("frobnicate", "qemu"),
      Colons(<< "start", "pve", "qemu", "100" >>) }

InitLive ==
    /\ pc = "start"
    /\ lister = NoLister
    /\ arg \in LiveArgs
    /\ verify_ssl = FALSE
    /\ snapshots = << >>
    /\ InitLocals

SpecLive == InitLive /\ [][Next]_vars /\ WF_vars(Next)

(***************************************************************************)
(* C22: every invocation ends: whatever the replies are (a task that never *)
(* reports 'stopped', status queries that all fail), main() reaches its    *)
(* end with wait_for_task left, and while wait_for_task runs the time      *)
(* since its call never exceeds the timeout by more than one query and one *)
(* sleep.                                                                  *)
(***************************************************************************)
Finished == pc = "done" /\ wpc = "idle"

WaitBounded ==
    wpc # "idle" =>
      Elapsed <= Timeout * TicksPerSec + MaxReqTicks
                   + PollInterval * TicksPerSec + MaxOversleep

C22_Terminates == []WaitBounded /\ <>[]Finished

C22_Witness ==
    /\ Finished
    /\ InRollback
    /\ polls["rollback"] > 0
    /\ polls["start"] > 0
    /\ \E i \in DOMAIN notes :
          notes[i] = Note("Proxmox", "timed_out", "Start after rollback", "")

(***************************************************************************)
(* C23: after a request answered by an HTTP error status, the last         *)
(* notification carries both the status code and the (truncated) body of   *)
(* the reply, on every request path.                                       *)
(***************************************************************************)
\* the texts of the model that hold the HTTP status code
ShowsCode(detail) ==
    detail \in {"API Error code: body", "HTTP Error code: reason"}

\* the texts of the model that hold the body of the reply
ShowsBody(detail) == detail \in {"API Error code: body", "body"}

C23_HttpErrorShowsCodeAndBody ==
    result = "http" =>
      /\ notes # << >>
      /\ ShowsCode(notes[Len(notes)].detail)
      /\ ShowsBody(notes[Len(notes)].detail)

(***************************************************************************)
(* C24: in the rollback flow every step keeps the order 'rolling back'     *)
(* notification, rollback request, rollback polls, rollback success        *)
(* notification, settle delay, 'starting after rollback' notification,     *)
(* start request, start polls, terminal notification of the start: each    *)
(* event happens only when the ones before it have happened and none of    *)
(* the later ones has, and the step that announces the start has first     *)
(* slept the settle delay after the rollback completed.                    *)
(***************************************************************************)
\* this step emits a notification of kind k
Notifies(k) ==
    /\ Len(notes') = Len(notes) + 1
    /\ notes'[Len(notes')].kind = k

\* this step sends a request to endpoint ep
Sends(ep) ==
    /\ Len(reqs') = Len(reqs) + 1
    /\ reqs'[Len(reqs')].ep = ep

\* this step sends a status query for task t
Polls(t) == polls'[t] = polls[t] + 1

RollingBackNote == Note("Proxmox", "rolling_back", "Rollback", "")

RollbackDoneNote == Note("Proxmox", "completed", "Rollback", "")

StartingNote == Note("Proxmox", "starting_after_rollback", "Start", "")

RollbackOrder ==
    /\ Sends("rollback") =>
          /\ notes = << RollingBackNote >>
          /\ Len(reqs) = 1
          /\ polls["rollback"] = 0
    /\ Polls("rollback") =>
          /\ Len(reqs) = 2 /\ IsRollbackRequest(reqs[2])
          /\ notes = << RollingBackNote >>
    /\ (Len(notes') > Len(notes) /\ notes'[Len(notes')] = RollbackDoneNote) =>
          /\ polls["rollback"] >= 1
          /\ notes = << RollingBackNote >>
    /\ Notifies("starting_after_rollback") =>
          /\ notes = << RollingBackNote, RollbackDoneNote >>
          /\ Len(reqs) = 2
          /\ now' >= now + SettleDelay * TicksPerSec
    /\ Sends("status/start") =>
          /\ notes = << RollingBackNote, RollbackDoneNote, StartingNote >>
          /\ polls["start"] = 0
          /\ pc = "start_dispatch"
    /\ Polls("start") =>
          /\ Len(reqs) = 3 /\ reqs[3].ep = "status/start"
          /\ notes = << RollingBackNote, RollbackDoneNote, StartingNote >>
    /\ (Len(notes') > Len(notes)
        /\ notes'[Len(notes')].subject = "Start after rollback") =>
          /\ polls["start"] >= 1
          /\ notes = << RollingBackNote, RollbackDoneNote, StartingNote >>
          /\ notes'[Len(notes')].kind \in {"completed", "failed", "timed_out"}

C24_RollbackOrder == [][InRollback => RollbackOrder]_vars

C24_Witness ==
    /\ InRollback
    /\ pc = "done"
    /\ notes = << RollingBackNote, RollbackDoneNote, StartingNote,
                  Note("Proxmox", "completed", "Start after rollback", "") >>
    /\ Len(reqs) = 3
    /\ polls["rollback"] >= 1
    /\ polls["start"] >= 1

(***************************************************************************)
(* C25: when the reply to the rollback request carries no task             *)
(* identifier, no start request is sent whatever was_running,              *)
(* currently_running and has_vmstate are; the invocation ends with the     *)
(* 'Rollback initiated' notification as the only one after 'Rolling back'. *)
(***************************************************************************)
RollbackWithoutTask ==
    /\ InRollback
    /\ Len(reqs) >= 2
    /\ IsRollbackRequest(reqs[2])
    /\ upid = ""
    /\ ~(Len(reqs) = 2 /\ RequestFailed)

RollbackInitiatedNote == Note("Proxmox", "rollback_initiated", "Rollback", "")

C25_NoTaskNoStart ==
    RollbackWithoutTask =>
      /\ pc = "done"
      /\ wpc = "idle"
      /\ Len(reqs) = 2
      /\ ~StartDispatched
      /\ notes = << RollingBackNote, RollbackInitiatedNote >>
      /\ \A t \in Tasks : polls[t] = 0

C25_Witness ==
    /\ RollbackWithoutTask
    /\ was_running
    /\ currently_running
    /\ ~has_vmstate
    /\ pc = "done"
    /\ notes[Len(notes)] = RollbackInitiatedNote

(***************************************************************************)
(* C26: when the poll of the rollback task times out, no start request is  *)
(* sent and the notifications of the invocation are 'Rolling back' and     *)
(* the one timeout notification: no success and no failure of the          *)
(* rollback is reported.                                                   *)
(***************************************************************************)
RollbackTimeoutNote == Note("Proxmox", "timed_out", "Rollback", "")

RollbackTimedOut ==
    InRollback /\ \E i \in DOMAIN notes : notes[i] = RollbackTimeoutNote

C26_RollbackTimeoutEndsFlow ==
    RollbackTimedOut =>
      /\ notes = << RollingBackNote, RollbackTimeoutNote >>
      /\ Len(reqs) = 2
      /\ ~StartDispatched
      /\ polls["start"] = 0
      /\ pc \in {"rb_wait", "done"}
      /\ pc = "done" => ~success

C26_Witness ==
    /\ RollbackTimedOut
    /\ pc = "done"
    /\ was_running
    /\ ~has_vmstate
    /\ polls["rollback"] >= 2

(***************************************************************************)
(* C27: in wait_for_task the timeout test precedes the status query of     *)
(* the iteration: a status query is sent only with an elapsed time of at   *)
(* most the timeout, and an iteration that starts with more elapsed ends   *)
(* the wait with the timeout notification and without a query.             *)
(***************************************************************************)
AtLoopTop == wpc = "check"

C27_TimeoutTestBeforeQuery ==
    [][ /\ \A t \in Tasks :
              Polls(t) => /\ w_upid = t
                          /\ Elapsed <= Timeout * TicksPerSec
        /\ (AtLoopTop /\ Elapsed > Timeout * TicksPerSec) =>
              /\ polls' = polls
              /\ Notifies("timed_out")
              /\ wpc' = "ret"
              /\ ~wret'
      ]_vars

C27_Witness ==
    /\ ReturnedOnTimeout
    /\ Elapsed > Timeout * TicksPerSec
    /\ polls[w_upid] >= 2
    /\ status.status = "running"

(***************************************************************************)
(* C28: when the status/current query of the rollback flow or the          *)
(* snapshot listing of the snapshot flow fails, the invocation ends with   *)
(* that request as its only one and one failure notification; a rollback   *)
(* or snapshot-create request is only ever sent as the second request,     *)
(* after the read succeeded.                                               *)
(***************************************************************************)
IsListing(r) == r.method = "GET" /\ r.ep = "snapshot"

ReadFailed ==
    /\ Len(reqs) = 1
    /\ IsStatusQuery(reqs[1]) \/ IsListing(reqs[1])
    /\ RequestFailed

C28_FailedReadAborts ==
    /\ ReadFailed =>
          /\ pc = "done"
          /\ wpc = "idle"
          /\ Len(notes) = 1
          /\ IsFailureNote(notes[1])
    /\ \A i \in DOMAIN reqs :
          (IsRollbackRequest(reqs[i]) \/ IsSnapshotCreate(reqs[i])) =>
             /\ i = 2
             /\ IsStatusQuery(reqs[1]) \/ IsListing(reqs[1])
             /\ notes[1].kind \in {"rolling_back", "creating"}

C28_Witness ==
    /\ ReadFailed
    /\ InRollback
    /\ pc = "done"
    /\ exit_code = 1
    /\ notes = << RollbackExcept(RawClientError("conn")) >>

(***************************************************************************)
(* C29: the name the snapshot namer returns is the name of no entry of     *)
(* the listing it was computed from, for every listing: with names with    *)
(* leading zeros, the 'current' entry and names of any other form.         *)
(***************************************************************************)
C29_NameIsFresh ==
    pc = "named" => \A i \in DOMAIN snapshots : snapshots[i] # snap_name

Snap11 == << "s", "n", "a", "p", "1", "1" >>

C29_Witness ==
    /\ pc = "named"
    /\ snapshots = << NameUniverse[4], NameUniverse[6], NameUniverse[7],
                      NameUniverse[8] >>
    /\ snap_name = Snap11

(***************************************************************************)
(* C30: the argument list_snapshots.py builds is taken apart by main()     *)
(* into the values it was built from: it is never rejected, and node,      *)
(* type, id, display name, snapshot name, was_running and has_vmstate are  *)
(* the lister's, for display names with colons too.                        *)
(***************************************************************************)
C30_RoundTrip ==
    /\ \A i \in DOMAIN notes : ~IsRejection(notes[i])
    /\ pc \notin {"lister", "start"} =>
          /\ action = "rollback_exec"
          /\ target.node = lister.node
          /\ vmtype = lister.vmtype
          /\ target.vmid = lister.vmid
          /\ target.name = Text(lister.name)
    /\ reqs # << >> =>
          /\ Text(snap_name) = Text(lister.snap_name)
          /\ was_running = lister.is_running
          /\ has_vmstate = lister.has_vmstate

=============================================================================
